---- MODULE Spec2Model ----
(***************************************************************************)
(* Feed-state reconciliation of disway_rss_scraper.py: one invocation of   *)
(* main() loads the tracking file and the previous feed, filters the       *)
(* previous feed by age, scrapes the listing page, fetches the new         *)
(* articles one at a time, writes the feed and saves the tracking file.    *)
(*                                                                         *)
(* Time is in seconds.  An ISO-8601 UTC timestamp (first_seen, the         *)
(* cutoffs) is the number of seconds it denotes: the program compares      *)
(* these strings with >, and for isoformat() strings of one time zone the  *)
(* string order is the time order.  A link is a record [u, e]: u names    *)
(* the URL and e counts how many times html.escape has been applied to     *)
(* its text.                                                               *)
(***************************************************************************)
EXTENDS Integers, Sequences, FiniteSets, TLC

VARIABLES
    clock,              \* wall clock (datetime.now), seconds
    seenFile,           \* seen_articles.json: [exists, data]
    feedFile,           \* docs/feed.xml: [exists, items], items as written
    pc,                 \* position of main(): "idle", "listing", "fetching", "done"
    runs,               \* number of invocations of main() started
    seen,               \* main: seen
    existing_feed,      \* main: existing_feed (after step 2), insertion-ordered dict
    cutoff,             \* main: cutoff (line 488)
    all_articles,       \* main: all_articles
    new_articles,       \* main: new_articles
    now,                \* main: now (line 527)
    i,                  \* main: loop index of step 5
    new_articles_data,  \* main: new_articles_data
    seenAtStart,        \* history: seen as loaded by this run
    feedAtStart,        \* history: existing_feed as loaded by this run, before step 2
    fetched,            \* history: links parse_article_page was called with, in order
    startTime,          \* history: clock when this run started
    prevFeed,           \* history: feedFile as this run found it
    prevList,           \* history: all_articles of the run before this one
    gap,                \* history: time between the run before and this one
    prevCutoff,         \* history: cutoff of the run before this one
    dropped,            \* history: tracked links a run has left out of the feed
                        \* for their age, while their entry is on file
    failedLinks,        \* history: links for which parse_article_page gave None
                        \* in this run
    prevOrphans         \* history: link texts the run before this one wrote for
                        \* items it kept without an entry in seen

vars == <<clock, seenFile, feedFile, pc, runs, seen, existing_feed, cutoff,
          all_articles, new_articles, now, i, new_articles_data,
          seenAtStart, feedAtStart, fetched, startTime, prevFeed, prevList, gap,
          prevCutoff, dropped, failedLinks, prevOrphans>>

----------------------------------------------------------------------------
(* Program constants *)

FEED_MAX_AGE_HOURS == 3
SEEN_MAX_AGE_DAYS == 30
REQUEST_DELAY == 2
MAX_ARTICLES == 20
Retries == 3
SecondsPerMinute == 60
SecondsPerHour == 3600
SecondsPerDay == 86400
PubDateOffsetHours == 7

FeedMaxAge == FEED_MAX_AGE_HOURS * SecondsPerHour
SeenMaxAge == SEEN_MAX_AGE_DAYS * SecondsPerDay

(* Bounds of the model *)

MaxRuns == 2
MaxList == 2

URLs == {"a", "b", "q&r"}
\* html.escape changes the text of a URL that holds one of & < > " '
HasSpecial(u) == u = "q&r"

Link(u) == [u |-> u, e |-> 0]

\* Time between the end of one invocation and the start of the next.
Gaps == {0, FeedMaxAge - 10, SeenMaxAge}

----------------------------------------------------------------------------
(* Conversions *)

html_escape(l) == IF HasSpecial(l.u) THEN [l EXCEPT !.e = @ + 1] ELSE l

\* What an XML reader makes of the text of a <link> element.
XmlText(l) == IF l.e > 0 THEN [l EXCEPT !.e = @ - 1] ELSE l

\* make_pub_date(dt): the calendar fields of dt down to the minute, seconds
\* written as 00, offset written as +0700.  <<m>> is the string that shows
\* minute m (counted from the epoch).
make_pub_date(dt) == << dt \div SecondsPerMinute >>

\* The instant an RFC-822 reader takes a pubDate string to denote.
PubInstant(p) == p[1] * SecondsPerMinute - PubDateOffsetHours * SecondsPerHour

ListTitle(u) == <<"list title", u>>
PageTitle(u) == <<"h1", u>>
Placeholder == "(Konten tidak dapat diambil)"

----------------------------------------------------------------------------
(* Tracking file and previous feed *)

EmptyMap == [l \in {} |-> <<>>]

\* line 56: a missing or undecodable file is the empty dict
load_seen_articles(file) ==
    IF file.exists /\ file.ok THEN file.data ELSE EmptyMap

\* data.get('first_seen', '') > c: the empty string is greater than nothing
FirstSeenAfter(data, c) == data.first_seen # <<>> /\ data.first_seen[1] > c

\* The purge with the feed's age limit in place of SEEN_MAX_AGE_DAYS.
save_seen_articles_FeedAge(s, t) ==
    LET kept == {l \in DOMAIN s : FirstSeenAfter(s[l], t - FeedMaxAge)}
    IN  [exists |-> TRUE, ok |-> TRUE, data |-> [l \in kept |-> s[l]]]

\* The save without the purge.
save_seen_articles_NoPurge(s, t) ==
    [exists |-> TRUE, ok |-> TRUE, data |-> s]

\* line 66: keeps the entries whose first_seen is after now - SEEN_MAX_AGE_DAYS
save_seen_articles(s, t) ==
    LET kept == {l \in DOMAIN s : FirstSeenAfter(s[l], t - SeenMaxAge)}
    IN  [exists |-> TRUE, ok |-> TRUE, data |-> [l \in kept |-> s[l]]]

\* existing[link] = item on an insertion-ordered dict
DictPut(d, item) ==
    IF \E k \in 1..Len(d) : d[k].link = item.link
    THEN [k \in 1..Len(d) |-> IF d[k].link = item.link THEN item ELSE d[k]]
    ELSE Append(d, item)

\* lines 87-109: the regular expressions take the text between the tags as
\* it stands in the file; nothing is unescaped
ReadItem(x) ==
    [title |-> x.title, link |-> x.link, pub_date |-> x.pubDate,
     description_html |-> x.description, guid |-> x.guid]

RECURSIVE ReadItems(_, _)
ReadItems(items, d) ==
    IF items = <<>> THEN d
    ELSE ReadItems(Tail(items), DictPut(d, ReadItem(Head(items))))

\* line 74: a missing file, or one whose read raises, gives the empty dict
load_existing_feed(file) ==
    IF file.exists /\ file.ok THEN ReadItems(file.items, <<>>) ELSE <<>>

\* Step 2 without the age test: every item of the old feed is kept.
FilterFresh_NoAgeTest(d, s, c) == d

\* Step 2 with the comparison turned round: first_seen before the cutoff.
FilterFresh_Inverted(d, s, c) ==
    SelectSeq(d, LAMBDA item :
        \/ item.link \in DOMAIN s /\ ~FirstSeenAfter(s[item.link], c)
        \/ item.link \notin DOMAIN s)

\* lines 489-495
RECURSIVE FilterFresh(_, _, _)
FilterFresh(d, s, c) ==
    IF d = <<>> THEN <<>>
    ELSE LET item == Head(d)
             keep == \/ item.link \in DOMAIN s /\ FirstSeenAfter(s[item.link], c)
                     \/ item.link \notin DOMAIN s
         IN  (IF keep THEN <<item>> ELSE <<>>) \o FilterFresh(Tail(d), s, c)

----------------------------------------------------------------------------
(* RSS generation *)

build_article_html(article) == <<"<p>", article.content>>

\* lines 450-464: one <item> block; link and guid go through html.escape
WriteItem(title, link, guid, pubDate, desc) ==
    [title |-> title, link |-> html_escape(link), guid |-> html_escape(guid),
     pubDate |-> pubDate, description |-> desc]

\* lines 404-423
NewItems(articles) ==
    [k \in 1..Len(articles) |->
        WriteItem(articles[k].title, articles[k].link, articles[k].link,
                  articles[k].pub_date, build_article_html(articles[k]))]

\* lines 426-430
RECURSIVE OldItems(_, _)
OldItems(d, articles) ==
    IF d = <<>> THEN <<>>
    ELSE LET item == Head(d)
             skip == \E k \in 1..Len(articles) : articles[k].link = item.link
         IN  (IF skip THEN <<>>
              ELSE <<WriteItem(item.title, item.link, item.guid,
                               item.pub_date, item.description_html)>>)
             \o OldItems(Tail(d), articles)

\* The document without the items of the old feed.
generate_rss_NewOnly(articles, d) == NewItems(articles)

\* line 396: the <item> blocks of the generated document, in order
generate_rss(articles, d) == NewItems(articles) \o OldItems(d, articles)

WriteFeed(items) == [exists |-> TRUE, ok |-> TRUE, items |-> items]

----------------------------------------------------------------------------
(* Fetching *)

\* fetch_page: time.sleep(REQUEST_DELAY * 2) between the attempts that fail
FetchFailSleep == (Retries - 1) * (REQUEST_DELAY * 2)

RECURSIVE SeqsOver(_, _)
SeqsOver(S, n) ==
    IF n = 0 THEN {<<>>}
    ELSE LET shorter == SeqsOver(S, n - 1)
         IN  shorter \cup {Append(q, x) : q \in shorter, x \in S}

NoRepeat(q) == \A j, k \in 1..Len(q) : j # k => q[j] # q[k]

MinOf(x, y) == IF x < y THEN x ELSE y

\* parse_list_page on a page that was fetched: distinct links, at most
\* MAX_ARTICLES of them, in page order
Listings ==
    {[k \in 1..Len(q) |-> [title |-> ListTitle(q[k]), link |-> Link(q[k])]] :
        q \in {r \in SeqsOver(URLs, MinOf(MaxList, MAX_ARTICLES)) : NoRepeat(r)}}

\* parse_article_page: None, or the fields of the page (title '' without h1)
Outcomes == {"none", "notitle", "full"}

\* The placeholder of line 543 with the title left empty.
ArticleData_NoListTitle(article, outcome, pub_date_now) ==
    [title    |-> IF outcome = "full" THEN PageTitle(article.link.u)
                  ELSE IF outcome = "none" THEN <<>> ELSE article.title,
     link     |-> article.link,
     content  |-> IF outcome = "none" THEN Placeholder
                  ELSE <<"content", article.link.u>>,
     pub_date |-> pub_date_now]

ArticleData(article, outcome, pub_date_now) ==
    [title    |-> IF outcome = "full" THEN PageTitle(article.link.u)
                  ELSE article.title,
     link     |-> article.link,
     content  |-> IF outcome = "none" THEN Placeholder
                  ELSE <<"content", article.link.u>>,
     pub_date |-> pub_date_now]

SeenEntry(title, first_seen, pub_date) ==
    [title |-> title, first_seen |-> <<first_seen>>, pub_date |-> pub_date]

MapPut(s, l, v) == [x \in DOMAIN s \cup {l} |-> IF x = l THEN v ELSE s[x]]

\* Step 4 without the test against seen: every candidate counts as new.
FilterNew_All(articles, s) == articles

\* Step 4 with the test turned round: the candidates already tracked.
FilterNew_Inverted(articles, s) ==
    SelectSeq(articles, LAMBDA a : a.link \in DOMAIN s)

\* lines 519-522
RECURSIVE FilterNew(_, _)
FilterNew(articles, s) ==
    IF articles = <<>> THEN <<>>
    ELSE (IF Head(articles).link \notin DOMAIN s THEN <<Head(articles)>> ELSE <<>>)
         \o FilterNew(Tail(articles), s)

----------------------------------------------------------------------------
(* Files found by the first invocation *)

NoSeenFile == [exists |-> FALSE, ok |-> FALSE, data |-> EmptyMap]
NoFeedFile == [exists |-> FALSE, ok |-> FALSE, items |-> <<>>]

LegacyEntry(u, age) ==
    [title |-> ListTitle(u), first_seen |-> <<0 - age>>,
     pub_date |-> << (0 - age) \div SecondsPerMinute >>]

LegacyItem(u, age) ==
    [title |-> ListTitle(u), link |-> html_escape(Link(u)),
     guid |-> html_escape(Link(u)),
     pubDate |-> << (0 - age) \div SecondsPerMinute >>,
     description |-> <<"<p>", <<"content", u>> >>]

InitFiles ==
    { \* nothing on disk
      [seen |-> NoSeenFile, feed |-> NoFeedFile],
      \* a feed without tracking
      [seen |-> NoSeenFile,
       feed |-> WriteFeed(<<LegacyItem("b", 2 * SecondsPerDay)>>)],
      \* tracking without a feed
      [seen |-> [exists |-> TRUE, ok |-> TRUE,
                 data |-> [l \in {Link("a")} |-> LegacyEntry("a", SecondsPerHour)]],
       feed |-> NoFeedFile],
      \* an item past FEED_MAX_AGE_HOURS, and an entry without first_seen
      [seen |-> [exists |-> TRUE, ok |-> TRUE,
                 data |-> [l \in {Link("a"), Link("b")} |->
                             IF l = Link("a")
                             THEN LegacyEntry("a", 4 * SecondsPerHour)
                             ELSE [title |-> ListTitle("b"), first_seen |-> <<>>,
                                   pub_date |-> <<>>]]],
       feed |-> WriteFeed(<<LegacyItem("a", 4 * SecondsPerHour),
                            LegacyItem("b", 4 * SecondsPerHour)>>)],
      \* files that cannot be decoded or read
      [seen |-> [exists |-> TRUE, ok |-> FALSE, data |-> EmptyMap],
       feed |-> [exists |-> TRUE, ok |-> FALSE, items |-> <<>>]] }

----------------------------------------------------------------------------
(* main() *)

\* The links with a dated entry at the start of the run that step 2 found no
\* longer fresh, added to those of earlier runs, less the entries purged.
Dropped(before, atStart, c, saved) ==
    (before \cup {l \in DOMAIN atStart :
                    atStart[l].first_seen # <<>> /\ ~FirstSeenAfter(atStart[l], c)})
    \cap DOMAIN saved

\* lines 493-495: the links of the items kept although seen has no entry
\* for them
Orphans(d, s) == {d[k].link : k \in DOMAIN d} \ DOMAIN s

Init ==
    /\ clock = 0
    /\ \E f \in InitFiles : seenFile = f.seen /\ feedFile = f.feed
    /\ pc = "idle"
    /\ runs = 0
    /\ seen = EmptyMap
    /\ existing_feed = <<>>
    /\ cutoff = 0
    /\ all_articles = <<>>
    /\ new_articles = <<>>
    /\ now = 0
    /\ i = 0
    /\ new_articles_data = <<>>
    /\ seenAtStart = EmptyMap
    /\ feedAtStart = <<>>
    /\ fetched = <<>>
    /\ startTime = 0
    /\ prevFeed = NoFeedFile
    /\ prevList = <<>>
    /\ gap = 0
    /\ prevCutoff = 0
    /\ dropped = {}
    /\ failedLinks = {}
    /\ prevOrphans = {}

\* lines 483-500: steps 1 and 2
Start ==
    /\ pc \in {"idle", "done"}
    /\ runs < MaxRuns
    /\ \E g \in (IF pc = "idle" THEN {0} ELSE Gaps) :
          /\ gap' = g
          /\ clock' = clock + g
    /\ runs' = runs + 1
    /\ seen' = load_seen_articles(seenFile)
    /\ cutoff' = clock' - FeedMaxAge
    /\ existing_feed' = FilterFresh(load_existing_feed(feedFile), seen', cutoff')
    /\ all_articles' = <<>>
    /\ new_articles' = <<>>
    /\ new_articles_data' = <<>>
    /\ i' = 0
    /\ seenAtStart' = seen'
    /\ feedAtStart' = load_existing_feed(feedFile)
    /\ fetched' = <<>>
    /\ startTime' = clock'
    /\ prevFeed' = feedFile
    /\ prevList' = all_articles
    /\ prevCutoff' = cutoff
    /\ failedLinks' = {}
    /\ prevOrphans' = {html_escape(l) : l \in Orphans(existing_feed, seenAtStart)}
    /\ pc' = "listing"
    /\ UNCHANGED <<seenFile, feedFile, now, dropped>>

\* lines 503-516: the listing gives nothing; the feed is rewritten from
\* existing_feed and the tracking file is saved
ScrapeListEmpty ==
    /\ pc = "listing"
    /\ \E failed \in BOOLEAN :
          clock' = clock + (IF failed THEN FetchFailSleep ELSE 0) + REQUEST_DELAY
    /\ all_articles' = <<>>
    /\ feedFile' = WriteFeed(generate_rss(<<>>, existing_feed))
    /\ seenFile' = save_seen_articles(seen, clock')
    /\ dropped' = Dropped(dropped, seenAtStart, cutoff, seenFile'.data)
    /\ pc' = "done"
    /\ UNCHANGED <<runs, seen, existing_feed, cutoff, new_articles, now, i,
                   new_articles_data, seenAtStart, feedAtStart, fetched,
                   startTime, prevFeed, prevList, gap, prevCutoff, failedLinks,
                   prevOrphans>>

\* lines 503-527: the listing gives articles; step 4 keeps the new ones
ScrapeListFound ==
    /\ pc = "listing"
    /\ \E articles \in Listings \ {<<>>} :
          /\ all_articles' = articles
          /\ new_articles' = FilterNew(articles, seen)
    /\ clock' = clock + REQUEST_DELAY
    /\ now' = clock'
    /\ i' = 0
    /\ new_articles_data' = <<>>
    /\ pc' = "fetching"
    /\ UNCHANGED <<seenFile, feedFile, runs, seen, existing_feed, cutoff,
                   seenAtStart, feedAtStart, fetched, startTime, prevFeed,
                   prevList, gap, prevCutoff, dropped, failedLinks, prevOrphans>>

\* lines 530-560: one iteration of step 5
FetchArticle ==
    /\ pc = "fetching"
    /\ i < Len(new_articles)
    /\ LET article == new_articles[i + 1]
           pub_date_now == make_pub_date(now + i * SecondsPerMinute)
       IN  /\ \E outcome \in Outcomes :
                 /\ new_articles_data' =
                       Append(new_articles_data,
                              ArticleData(article, outcome, pub_date_now))
                 /\ clock' = clock + REQUEST_DELAY
                               + (IF outcome = "none" THEN FetchFailSleep ELSE 0)
                 /\ failedLinks' = IF outcome = "none"
                                   THEN failedLinks \cup {article.link}
                                   ELSE failedLinks
           /\ seen' = MapPut(seen, article.link,
                             SeenEntry(article.title, now, pub_date_now))
           /\ fetched' = Append(fetched, article.link)
    /\ i' = i + 1
    /\ UNCHANGED <<seenFile, feedFile, pc, runs, existing_feed, cutoff,
                   all_articles, new_articles, now, seenAtStart, feedAtStart,
                   startTime, prevFeed, prevList, gap, prevCutoff, dropped,
                   prevOrphans>>

\* lines 563-568: steps 6 and 7
Finish ==
    /\ pc = "fetching"
    /\ i = Len(new_articles)
    /\ feedFile' = WriteFeed(generate_rss(new_articles_data, existing_feed))
    /\ seenFile' = save_seen_articles(seen, clock)
    /\ dropped' = Dropped(dropped, seenAtStart, cutoff, seenFile'.data)
    /\ pc' = "done"
    /\ UNCHANGED <<clock, runs, seen, existing_feed, cutoff, all_articles,
                   new_articles, now, i, new_articles_data, seenAtStart,
                   feedAtStart, fetched, startTime, prevFeed, prevList, gap,
                   prevCutoff, failedLinks, prevOrphans>>

Next == Start \/ ScrapeListEmpty \/ ScrapeListFound \/ FetchArticle \/ Finish

Spec == Init /\ [][Next]_vars

----------------------------------------------------------------------------
(* Properties *)

Range(q) == {q[k] : k \in DOMAIN q}

\* The links of a feed as a feed reader takes them
FeedLinks(file) == {XmlText(file.items[k].link) : k \in DOMAIN file.items}

CandidateLinks == {all_articles[k].link : k \in DOMAIN all_articles}

Dated(s, l) == l \in DOMAIN s /\ s[l].first_seen # <<>>

C2_FeedItemsFresh ==
    pc = "done" =>
        \A k \in DOMAIN feedFile.items :
            LET item == feedFile.items[k]
                l == XmlText(item.link)
            IN  IF Dated(seenFile.data, l)
                THEN seenFile.data[l].first_seen[1] >= clock - FeedMaxAge
                ELSE /\ item.pubDate # <<>>
                     /\ PubInstant(item.pubDate) >= clock - FeedMaxAge

\* C3 as stated: every link whose entry, at the start of the run, has a
\* first_seen within FEED_MAX_AGE_HOURS is in the feed the run writes.
C3_FreshTrackedInFeed ==
    pc = "done" =>
        \A l \in DOMAIN seenAtStart :
            FirstSeenAfter(seenAtStart[l], startTime - FeedMaxAge)
                => l \in FeedLinks(feedFile)

\* C3 amended: every link that is the link text of an item of the previous
\* feed file, and whose entry at the start of the run has a first_seen within
\* FEED_MAX_AGE_HOURS, is in the feed the run writes, listed or not.
C3_FreshTrackedOldItemInFeed ==
    pc = "done" =>
        \A l \in DOMAIN seenAtStart :
            /\ FirstSeenAfter(seenAtStart[l], startTime - FeedMaxAge)
            /\ \E k \in DOMAIN feedAtStart : feedAtStart[k].link = l
            => l \in FeedLinks(feedFile)

\* a tracked, fresh item of the old feed that the listing no longer shows
C3_Witness ==
    /\ pc = "done"
    /\ \E l \in DOMAIN seenAtStart :
          /\ FirstSeenAfter(seenAtStart[l], startTime - FeedMaxAge)
          /\ \E k \in DOMAIN feedAtStart : feedAtStart[k].link = l
          /\ l \notin CandidateLinks
          /\ all_articles # <<>>
          /\ l \in FeedLinks(feedFile)

\* C4: parse_article_page is called for exactly the candidates without an
\* entry in the tracking state loaded at the start, once each and in listing
\* order, and these are exactly the links the run adds to the tracking file.
C4_ExtractorOnNewOnly ==
    pc = "done" =>
        LET newLinks == CandidateLinks \ DOMAIN seenAtStart
        IN  /\ Range(fetched) = newLinks
            /\ NoRepeat(fetched)
            /\ \A j, k \in DOMAIN fetched :
                  j < k => \E m, n \in DOMAIN all_articles :
                              /\ m < n
                              /\ all_articles[m].link = fetched[j]
                              /\ all_articles[n].link = fetched[k]
            /\ DOMAIN seenFile.data \ DOMAIN seenAtStart = newLinks

\* a listing with a tracked candidate before two new ones
C4_Witness ==
    /\ pc = "done"
    /\ Len(fetched) >= 1
    /\ Len(all_articles) > Len(fetched)
    /\ all_articles[1].link \in DOMAIN seenAtStart

\* C5: a tracked link that a run has left out of the feed for its age is in
\* no later feed and is not fetched again while its entry is on file, listed
\* or not; parse_article_page is only ever called for links without an entry.
C5_NoReturnWhileTracked ==
    /\ \A l \in dropped : l \notin FeedLinks(feedFile) /\ l \notin Range(fetched)
    /\ \A l \in Range(fetched) : l \notin DOMAIN seenAtStart
    /\ pc = "done" =>
          \A l \in DOMAIN seenAtStart :
              Dated(seenAtStart, l) /\ ~FirstSeenAfter(seenAtStart[l], cutoff)
                  => l \notin FeedLinks(feedFile) /\ l \notin Range(fetched)

\* a link the run before had already left out for its age, listed again
C5_Witness ==
    /\ pc = "done"
    /\ runs >= 2
    /\ \E l \in dropped \cap CandidateLinks :
          /\ Dated(seenAtStart, l)
          /\ ~FirstSeenAfter(seenAtStart[l], prevCutoff)
          /\ l \notin FeedLinks(prevFeed)

WindowsStable ==
    \A l \in DOMAIN seenAtStart :
        /\ FirstSeenAfter(seenAtStart[l], clock - SeenMaxAge)
        /\ FirstSeenAfter(seenAtStart[l], prevCutoff)
              <=> FirstSeenAfter(seenAtStart[l], clock - FeedMaxAge)

\* C7: a second run right after a first, on the same listing, fetches
\* nothing, writes a feed with the same set of links in which every item
\* keeps its title, pubDate and body, and leaves the tracking state as it was.
C7_Idempotent ==
    pc = "done" /\ runs >= 2 /\ gap = 0 /\ all_articles = prevList /\ WindowsStable
    =>  /\ fetched = <<>>
        /\ FeedLinks(feedFile) = FeedLinks(prevFeed)
        /\ \A k \in DOMAIN feedFile.items, j \in DOMAIN prevFeed.items :
              XmlText(feedFile.items[k].link) = XmlText(prevFeed.items[j].link)
                  => /\ feedFile.items[k].title = prevFeed.items[j].title
                     /\ feedFile.items[k].pubDate = prevFeed.items[j].pubDate
                     /\ feedFile.items[k].description = prevFeed.items[j].description
        /\ seenFile.data = seenAtStart

\* C8: after a run, every entry of the saved tracking file has a first_seen,
\* and none is older than the time of saving less SEEN_MAX_AGE_DAYS.
C8_RetentionInvariant ==
    pc = "done" =>
        \A l \in DOMAIN seenFile.data :
            /\ Dated(seenFile.data, l)
            /\ seenFile.data[l].first_seen[1] >= clock - SeenMaxAge

\* a run that purged an entry past SEEN_MAX_AGE_DAYS and saved a younger one
C8_Witness ==
    /\ pc = "done"
    /\ DOMAIN seenFile.data # {}
    /\ \E l \in DOMAIN seen \ DOMAIN seenFile.data :
          Dated(seen, l) /\ seen[l].first_seen[1] < clock - SeenMaxAge

\* C9: the i-th new article of a run has the publish time now + i minutes;
\* these times increase strictly in listing order; from an empty tracking
\* state and no feed, n listed links give n items and n entries.
C9_PubDateIsRunTimePlusMinutes ==
    /\ \A k \in DOMAIN new_articles_data :
          PubInstant(new_articles_data[k].pub_date) = now + (k - 1) * SecondsPerMinute
    /\ \A j, k \in DOMAIN new_articles_data :
          j < k => PubInstant(new_articles_data[j].pub_date)
                      < PubInstant(new_articles_data[k].pub_date)
    /\ pc = "done" /\ DOMAIN seenAtStart = {} /\ feedAtStart = <<>> =>
          /\ Len(feedFile.items) = Len(all_articles)
          /\ Cardinality(DOMAIN seenFile.data) = Len(all_articles)

\* C10: no step changes an entry of the tracking state, in the file or in
\* main's dict, that is there before and after it.
C10_EntriesNeverModified ==
    [][ /\ \A l \in DOMAIN seenFile.data \cap DOMAIN seenFile'.data :
              seenFile'.data[l] = seenFile.data[l]
        /\ pc' # "listing" =>
              \A l \in DOMAIN seen : l \in DOMAIN seen' /\ seen'[l] = seen[l]
      ]_vars

\* a link tracked by an earlier run, listed again, with its entry as it was
C10_Witness ==
    /\ pc = "done"
    /\ runs >= 2
    /\ \E l \in CandidateLinks \cap DOMAIN seenAtStart :
          /\ Dated(seenAtStart, l)
          /\ seenAtStart[l].first_seen[1] > 0
          /\ l \in DOMAIN seenFile.data
          /\ seenFile.data[l] = seenAtStart[l]
          /\ Range(fetched) # {}

\* C11: whichever article fetches fail, the run goes through every new link
\* and writes both files; a link whose fetch failed gets a feed item with the
\* listing title, the link, the pub_date assigned to it and the fixed body,
\* and every new link, failed or not, gets the same kind of entry, so that no
\* run fetches a link that has an entry when it starts.
C11_FailedFetchPlaceholder ==
    /\ \A l \in Range(fetched) : l \notin DOMAIN seenAtStart
    /\ pc = "done" /\ all_articles # <<>> =>
        /\ feedFile.exists /\ feedFile.ok /\ seenFile.exists /\ seenFile.ok
        /\ failedLinks \subseteq Range(fetched)
        /\ fetched = [k \in DOMAIN new_articles |-> new_articles[k].link]
        /\ Len(feedFile.items) >= Len(new_articles)
        /\ \A k \in DOMAIN new_articles :
              LET article == new_articles[k]
                  assigned == make_pub_date(now + (k - 1) * SecondsPerMinute)
              IN  /\ XmlText(feedFile.items[k].link) = article.link
                  /\ feedFile.items[k].pubDate = assigned
                  /\ article.link \in failedLinks =>
                        /\ feedFile.items[k].title = article.title
                        /\ feedFile.items[k].description = <<"<p>", Placeholder>>
                  /\ article.link \in DOMAIN seenFile.data
                  /\ seenFile.data[article.link] =
                        [title |-> article.title, first_seen |-> <<now>>,
                         pub_date |-> assigned]

\* a run whose first new article failed and whose second one was fetched
C11_Witness ==
    /\ pc = "done"
    /\ Len(new_articles) >= 2
    /\ new_articles[1].link \in failedLinks
    /\ new_articles[2].link \notin failedLinks
    /\ feedFile.items[1].description = <<"<p>", Placeholder>>
    /\ feedFile.items[2].description # <<"<p>", Placeholder>>

\* C12: an item of the old feed whose link has no entry is kept for one more
\* run only: when the run before this one already kept it without an entry
\* and the listing does not show it, it is not in the feed this run writes.
C12_OrphanOneCycle ==
    pc = "done" /\ runs >= 2 =>
        \A l \in Orphans(existing_feed, seenAtStart) \cap prevOrphans :
            l \notin CandidateLinks => l \notin FeedLinks(feedFile)

====
